---- MODULE Spec2Model ----
(***************************************************************************)
(* Model of async-ops: the status type and is_final (status.rs), the       *)
(* generic server AsyncOpServer (server.rs) and the blocking backend       *)
(* (multithread/blocking.rs).                                              *)
(*                                                                         *)
(* Spec         : the generic server driving the MockServerConfig of       *)
(*                server.rs (single threaded, as in its unit tests).       *)
(* SpecBlocking : a server thread and a client thread sharing the          *)
(*                mutex/condvar state of the blocking backend.             *)
(* LiveBlocking : SpecBlocking with the fairness of the thread scheduler.  *)
(***************************************************************************)
EXTENDS Naturals, Sequences, FiniteSets, TLC

\* ------------------------------------------------------------------ bounds
\* Payload values carried by a status are 0..MaxDetail
MaxDetail == 1
\* Number of update() calls the worker issues at most
MaxUpdates == 3
\* Number of status()/wait() calls the monitor issues at most
MaxCalls == 3
\* Number of distinct Details types (TypeId values) the model tells apart
MaxTypeId == 2

\* ------------------------------------------------------------------ status.rs
Details == 0 .. MaxDetail

\* enum AsyncOpStatus: the outer variant tags
StatusTags == {"Pending", "Running", "Done", "Cancelled", "Error"}

\* enum AsyncOpError: ServerKilled carries no payload, CustomError carries one
ErrorTags == {"ServerKilled", "CustomError"}

\* A status value: tag, the error variant (for tag Error) and the payload
Status(tag, err, details) == [tag |-> tag, err |-> err, details |-> details]

\* Every value of AsyncOpStatus<Details>
AsyncOpStatus ==
    { Status(t, "None", d) : t \in StatusTags \ {"Error"}, d \in Details }
    \cup { Status("Error", "ServerKilled", 0) }
    \cup { Status("Error", "CustomError", d) : d \in Details }

\* AsyncOpStatus::Error(AsyncOpError::ServerKilled)
ERROR_SERVER_KILLED == Status("Error", "ServerKilled", 0)

is_final_not_error(s) ==
    CASE s.tag \in {"Pending", "Running"} -> FALSE
      [] s.tag \in {"Done", "Cancelled"} -> TRUE
      [] OTHER -> s.err = "CustomError"

\* fn is_final: match on the variant, the payload is ignored (_)
is_final(s) ==
    CASE s.tag \in {"Pending", "Running"} -> FALSE
      [] s.tag \in {"Done", "Cancelled", "Error"} -> TRUE

\* ------------------------------------------------------------------ state
\* A value no status equals: "nothing returned yet", "no update() entered yet"
NoStatus == Status("None", "None", 0)

VARIABLES
    debug_assertions,      \* build configuration: is debug_assert! compiled in
    server,                \* life of the server handle
    reached_final_status,  \* AsyncOpServer::reached_final_status
    updates,               \* number of update() calls the worker has issued
    status_arg,            \* the status parameter of the update() last entered
    killed,                \* the server handle was dropped while still Active
    last_status,           \* MockServerConfig::last_status
    update_count,          \* MockServerConfig::update_count
    probe,                 \* <<arg, result>> of the last direct is_final call
    status_lock,           \* SharedState::status_lock: [status, read]
    mutex,                 \* owner of the status_lock mutex
    cancelled,             \* SharedState::cancelled
    spc,                   \* where the server thread is inside config.update
    cpc,                   \* where the client thread is inside status()/wait()
    ret,                   \* value last returned by status()/wait()
    calls,                 \* number of status()/wait() calls issued
    quiet_status,          \* last finished call is status(), no update since
    unseen,                \* statuses stored since the last read (2: 2 or more)
    buffers,               \* TripleBuffer: the three buffers, [status, seq]
    back_info,             \* TripleBuffer: back-buffer index and dirty bit
    write_idx,             \* TripleBufferInput::write_idx
    read_idx,              \* TripleBufferOutput::read_idx
    sent,                  \* statuses put in the triple buffer, in order
    ret_seq,               \* position in sent of the value status() returned
    done_at_start,         \* sends completed when the current status() began
    holder,                \* AnyInlineCallbackChannel::holder: TypeId it boxes
    received,              \* statuses the callback was invoked with, in order
    compat,                \* <<TypeId, result>> of the last is_compatible
    unwrap_failed          \* a notify() panicked on the failed downcast

core_vars == <<debug_assertions, server, reached_final_status, updates,
               status_arg, killed>>
mock_vars == <<last_status, update_count, probe>>
blocking_vars == <<status_lock, mutex, cancelled, spc, cpc, ret, calls,
                   quiet_status, unseen>>
polling_vars == <<buffers, back_info, write_idx, read_idx, sent, ret_seq,
                  done_at_start>>
callback_vars == <<holder, received, compat, unwrap_failed>>
client_vars == <<cpc, ret, calls, quiet_status>>
vars == <<debug_assertions, server, reached_final_status, updates,
          status_arg, killed, last_status, update_count, probe,
          status_lock, mutex, cancelled, spc, cpc, ret, calls, quiet_status,
          unseen, buffers, back_info, write_idx, read_idx, sent, ret_seq,
          done_at_start, holder, received, compat, unwrap_failed>>

\* ------------------------------------------------------------------ server.rs
\* debug_assert!(!self.reached_final_status): checked in debug builds only
debug_assert_passes == ~(debug_assertions /\ reached_final_status)

AsyncOpServer_new_active(initial_status) ==
    /\ debug_assertions \in BOOLEAN
    /\ server = "alive"
    /\ reached_final_status = FALSE
    /\ updates = 0
    /\ status_arg = NoStatus
    /\ killed = FALSE

\* AsyncOpServer::new: the flag is seeded from the initial status
AsyncOpServer_new(initial_status) ==
    /\ debug_assertions \in BOOLEAN
    /\ server = "alive"
    /\ reached_final_status = is_final(initial_status)
    /\ updates = 0
    /\ status_arg = NoStatus
    /\ killed = FALSE

AsyncOpServer_update_flag_unset(status, config_update, config_unchanged) ==
    IF debug_assert_passes
    THEN /\ reached_final_status' = FALSE
         /\ status_arg' = status
         /\ config_update
         /\ UNCHANGED <<debug_assertions>>
    ELSE /\ server' = "panicking"
         /\ status_arg' = status
         /\ config_unchanged
         /\ UNCHANGED <<debug_assertions, reached_final_status, killed>>

AsyncOpServer_update_sticky(status, config_update, config_unchanged) ==
    IF debug_assert_passes
    THEN /\ reached_final_status' = (reached_final_status \/ is_final(status))
         /\ status_arg' = status
         /\ config_update
         /\ UNCHANGED <<debug_assertions>>
    ELSE /\ server' = "panicking"
         /\ status_arg' = status
         /\ config_unchanged
         /\ UNCHANGED <<debug_assertions, reached_final_status, killed>>

AsyncOpServer_update_late_assert(status, config_update, config_unchanged) ==
    IF debug_assert_passes
    THEN /\ reached_final_status' = is_final(status)
         /\ status_arg' = status
         /\ config_update
         /\ UNCHANGED <<debug_assertions>>
    ELSE /\ server' = "panicking"
         /\ reached_final_status' = is_final(status)
         /\ status_arg' = status
         /\ config_unchanged
         /\ UNCHANGED <<debug_assertions, killed>>

\* AsyncOpServer::update, with config_update the backend's update:
\* a failed assertion panics before anything is changed
AsyncOpServer_update(status, config_update, config_unchanged) ==
    IF debug_assert_passes
    THEN /\ reached_final_status' = is_final(status)
         /\ status_arg' = status
         /\ config_update
         /\ UNCHANGED <<debug_assertions>>
    ELSE /\ server' = "panicking"
         /\ status_arg' = status
         /\ config_unchanged
         /\ UNCHANGED <<debug_assertions, reached_final_status, killed>>

\* ------------------------------------------------------- server.rs tests
\* MockServerConfig::new
MockServerConfig_new(initial_status) ==
    /\ last_status = initial_status
    /\ update_count = 0

\* MockServerConfig::update
MockServerConfig_update(status) ==
    /\ last_status' = status
    /\ update_count' = update_count + 1

\* The variables of the blocking backend, unused by the mock
BlockingUnused ==
    /\ status_lock = [status |-> NoStatus, read |-> FALSE]
    /\ mutex = "free"
    /\ cancelled = FALSE
    /\ spc = "idle"
    /\ cpc = "idle"
    /\ ret = NoStatus
    /\ calls = 0
    /\ quiet_status = FALSE
    /\ unseen = 0

\* The variables of the polling backend, unused by the mock
PollingUnused ==
    /\ buffers = <<>>
    /\ back_info = [idx |-> 0, dirty |-> FALSE]
    /\ write_idx = 0
    /\ read_idx = 0
    /\ sent = <<>>
    /\ ret_seq = 0
    /\ done_at_start = 0

\* The variables of the callback backend, unused by the other backends
CallbackUnused ==
    /\ holder = 0
    /\ received = <<>>
    /\ compat = <<0, FALSE>>
    /\ unwrap_failed = FALSE

Init ==
    \E initial_status \in AsyncOpStatus :
        /\ AsyncOpServer_new(initial_status)
        /\ MockServerConfig_new(initial_status)
        /\ probe = <<NoStatus, FALSE>>
        /\ BlockingUnused
        /\ PollingUnused
        /\ CallbackUnused

\* server.update(status) on the mock
Update(status) ==
    /\ server = "alive"
    /\ updates < MaxUpdates
    /\ updates' = updates + 1
    /\ AsyncOpServer_update(status,
                            MockServerConfig_update(status)
                                /\ UNCHANGED <<server, killed>>,
                            UNCHANGED <<last_status, update_count>>)
    /\ UNCHANGED <<probe, blocking_vars, polling_vars, callback_vars>>

Drop_silent ==
    /\ server \in {"alive", "panicking"}
    /\ server' = "dropped"
    /\ killed' = ~reached_final_status
    /\ UNCHANGED <<debug_assertions, reached_final_status, status_arg,
                   last_status, update_count>>
    /\ UNCHANGED <<updates, probe, blocking_vars, polling_vars, callback_vars>>

Drop_unconditional ==
    /\ server \in {"alive", "panicking"}
    /\ reached_final_status' = TRUE
    /\ status_arg' = ERROR_SERVER_KILLED
    /\ MockServerConfig_update(ERROR_SERVER_KILLED)
    /\ server' = "dropped"
    /\ killed' = TRUE
    /\ UNCHANGED <<debug_assertions, updates, probe, blocking_vars,
                   polling_vars, callback_vars>>

\* Drop for AsyncOpServer: the handle goes out of scope, or the stack of a
\* panicking update() unwinds
Drop ==
    /\ server \in {"alive", "panicking"}
    /\ IF ~reached_final_status
       THEN AsyncOpServer_update(ERROR_SERVER_KILLED,
                                 MockServerConfig_update(ERROR_SERVER_KILLED)
                                     /\ server' = "dropped"
                                     /\ killed' = TRUE,
                                 FALSE)
       ELSE /\ server' = "dropped"
            /\ UNCHANGED <<debug_assertions, reached_final_status, status_arg,
                           killed, last_status, update_count>>
    /\ UNCHANGED <<updates, probe, blocking_vars, polling_vars, callback_vars>>

\* A direct call of is_final, as in the tests of status.rs
IsFinal(s) ==
    /\ probe' = <<s, is_final(s)>>
    /\ UNCHANGED <<core_vars, last_status, update_count, blocking_vars,
                   polling_vars, callback_vars>>

Next ==
    \/ \E status \in AsyncOpStatus : Update(status)
    \/ Drop
    \/ \E s \in AsyncOpStatus : IsFinal(s)

Spec == Init /\ [][Next]_vars

\* --------------------------------------------------------------- blocking.rs
\* The variables of the mock, unused by the blocking backend
MockUnused ==
    /\ last_status = NoStatus
    /\ update_count = 0
    /\ probe = <<NoStatus, FALSE>>

\* The statuses the worker of the two-thread model submits: every variant,
\* with Running carrying every progress payload and the others payload 0
WorkerStatus ==
    { s \in AsyncOpStatus : s.tag = "Running" \/ s.details = 0 }

AsyncOp_new_read(initial_status) ==
    /\ status_lock = [status |-> initial_status, read |-> TRUE]
    /\ mutex = "free"
    /\ cancelled = FALSE
    /\ AsyncOpServer_new(initial_status)

\* AsyncOp::new: shared state (initial status, read = false), flag unset
AsyncOp_new(initial_status) ==
    /\ status_lock = [status |-> initial_status, read |-> FALSE]
    /\ mutex = "free"
    /\ cancelled = FALSE
    /\ AsyncOpServer_new(initial_status)

InitBlocking ==
    \E initial_status \in WorkerStatus :
        /\ AsyncOp_new(initial_status)
        /\ spc = "idle"
        /\ cpc = "idle"
        /\ ret = NoStatus
        /\ calls = 0
        /\ quiet_status = FALSE
        /\ unseen = 0
        /\ MockUnused
        /\ PollingUnused
        /\ CallbackUnused

\* server.update(status): the assertion and the flag, then config.update
\* starts and has to take the mutex
ServerUpdate(status) ==
    /\ server = "alive"
    /\ spc = "idle"
    /\ updates < MaxUpdates
    /\ updates' = updates + 1
    /\ AsyncOpServer_update(status,
                            spc' = "lock" /\ quiet_status' = FALSE
                                /\ UNCHANGED <<server, killed>>,
                            UNCHANGED <<spc, quiet_status>>)
    /\ UNCHANGED <<mock_vars, callback_vars, polling_vars, status_lock, mutex,
                   cancelled, cpc, ret, calls, unseen>>

ServerDrop_silent ==
    /\ server \in {"alive", "panicking"}
    /\ spc = "idle"
    /\ server' = "dropped"
    /\ killed' = ~reached_final_status
    /\ UNCHANGED <<debug_assertions, reached_final_status, status_arg, spc,
                   quiet_status>>
    /\ UNCHANGED <<mock_vars, callback_vars, polling_vars, updates,
                   status_lock, mutex, cancelled, cpc, ret, calls, unseen>>

\* Drop for AsyncOpServer on the server thread
ServerDrop ==
    /\ server \in {"alive", "panicking"}
    /\ spc = "idle"
    /\ IF ~reached_final_status
       THEN AsyncOpServer_update(ERROR_SERVER_KILLED,
                                 spc' = "lock" /\ quiet_status' = FALSE
                                     /\ server' = "dropping"
                                     /\ killed' = TRUE,
                                 FALSE)
       ELSE /\ server' = "dropped"
            /\ UNCHANGED <<debug_assertions, reached_final_status, status_arg,
                           killed, spc, quiet_status>>
    /\ UNCHANGED <<mock_vars, callback_vars, polling_vars, updates,
                   status_lock, mutex, cancelled, cpc, ret, calls, unseen>>

\* BlockingServerConfig::update: self.shared.status_lock.lock()
ServerLock ==
    /\ spc = "lock"
    /\ mutex = "free"
    /\ mutex' = "server"
    /\ spc' = "store"
    /\ UNCHANGED <<core_vars, mock_vars, callback_vars, polling_vars,
                   status_lock, cancelled, client_vars, unseen>>

ServerStore_if_changed ==
    /\ spc = "store"
    /\ status_lock' = [status |-> status_arg,
                       read |-> status_lock.read /\
                                status_arg = status_lock.status]
    /\ mutex' = "free"
    /\ spc' = "notify"
    /\ quiet_status' = FALSE
    /\ unseen' = IF unseen < 2 THEN unseen + 1 ELSE 2
    /\ UNCHANGED <<core_vars, mock_vars, callback_vars, polling_vars,
                   cancelled, cpc, ret, calls>>

ServerStore_keep_read ==
    /\ spc = "store"
    /\ status_lock' = [status |-> status_arg, read |-> status_lock.read]
    /\ mutex' = "free"
    /\ spc' = "notify"
    /\ quiet_status' = FALSE
    /\ unseen' = IF unseen < 2 THEN unseen + 1 ELSE 2
    /\ UNCHANGED <<core_vars, mock_vars, callback_vars, polling_vars,
                   cancelled, cpc, ret, calls>>

\* BlockingServerConfig::update: the pair is overwritten with (status, false)
\* and the guard is released at the end of the statement
ServerStore ==
    /\ spc = "store"
    /\ status_lock' = [status |-> status_arg, read |-> FALSE]
    /\ mutex' = "free"
    /\ spc' = "notify"
    /\ quiet_status' = FALSE
    /\ unseen' = IF unseen < 2 THEN unseen + 1 ELSE 2
    /\ UNCHANGED <<core_vars, mock_vars, callback_vars, polling_vars,
                   cancelled, cpc, ret, calls>>

ServerNotify_none ==
    /\ spc = "notify"
    /\ spc' = "idle"
    /\ server' = IF server = "dropping" THEN "dropped" ELSE server
    /\ UNCHANGED <<mock_vars, callback_vars, polling_vars, debug_assertions,
                   reached_final_status, updates, status_arg, killed,
                   status_lock, mutex, cancelled, cpc, ret, calls,
                   quiet_status, unseen>>

\* BlockingServerConfig::update: update_cv.notify_all() wakes the waiter;
\* when it was called from drop, the handle is gone afterwards
ServerNotify ==
    /\ spc = "notify"
    /\ spc' = "idle"
    /\ cpc' = IF cpc = "blocked" THEN "woken" ELSE cpc
    /\ server' = IF server = "dropping" THEN "dropped" ELSE server
    /\ UNCHANGED <<mock_vars, callback_vars, polling_vars, debug_assertions,
                   reached_final_status, updates, status_arg, killed,
                   status_lock, mutex, cancelled, ret, calls, quiet_status,
                   unseen>>

\* BlockingServerConfig::cancelled: load of the flag
ServerCancelled == cancelled

\* AsyncOpClient::status: the mutex is taken
StatusLock ==
    /\ cpc = "idle"
    /\ calls < MaxCalls
    /\ mutex = "free"
    /\ mutex' = "client"
    /\ cpc' = "status"
    /\ calls' = calls + 1
    /\ UNCHANGED <<core_vars, mock_vars, callback_vars, polling_vars,
                   status_lock, cancelled, spc, ret, quiet_status, unseen>>

StatusBody_keep_read ==
    /\ cpc = "status"
    /\ ret' = status_lock.status
    /\ mutex' = "free"
    /\ cpc' = "idle"
    /\ quiet_status' = (spc = "idle")
    /\ unseen' = 0
    /\ UNCHANGED <<core_vars, mock_vars, callback_vars, polling_vars,
                   status_lock, cancelled, spc, calls>>

StatusBody_torn ==
    /\ cpc = "status"
    /\ status_lock' = [status_lock EXCEPT !.read = TRUE]
    /\ ret' = IF status_arg = NoStatus THEN status_lock.status ELSE status_arg
    /\ mutex' = "free"
    /\ cpc' = "idle"
    /\ quiet_status' = (spc = "idle")
    /\ unseen' = 0
    /\ UNCHANGED <<core_vars, mock_vars, callback_vars, polling_vars,
                   cancelled, spc, calls>>

\* AsyncOpClient::status: mark as read, return a copy, release the guard
StatusBody ==
    /\ cpc = "status"
    /\ status_lock' = [status_lock EXCEPT !.read = TRUE]
    /\ ret' = status_lock.status
    /\ mutex' = "free"
    /\ cpc' = "idle"
    /\ quiet_status' = (spc = "idle")
    /\ unseen' = 0
    /\ UNCHANGED <<core_vars, mock_vars, callback_vars, polling_vars,
                   cancelled, spc, calls>>

\* AsyncOpClient::wait: the mutex is taken
WaitLock ==
    /\ cpc = "idle"
    /\ calls < MaxCalls
    /\ mutex = "free"
    /\ mutex' = "client"
    /\ cpc' = "wait"
    /\ calls' = calls + 1
    /\ UNCHANGED <<core_vars, mock_vars, callback_vars, polling_vars,
                   status_lock, cancelled, spc, ret, quiet_status, unseen>>

must_wait_ignoring_final == status_lock.read

\* AsyncOpClient::wait: the loop condition
must_wait == status_lock.read /\ ~is_final(status_lock.status)

WaitCheck_torn ==
    /\ cpc = "wait"
    /\ IF must_wait
       THEN /\ cpc' = "blocked"
            /\ mutex' = "free"
            /\ UNCHANGED <<status_lock, ret, quiet_status, unseen>>
       ELSE /\ status_lock' = [status_lock EXCEPT !.read = TRUE]
            /\ ret' = IF status_arg = NoStatus THEN status_lock.status
                      ELSE status_arg
            /\ mutex' = "free"
            /\ cpc' = "idle"
            /\ quiet_status' = FALSE
            /\ unseen' = 0
    /\ UNCHANGED <<core_vars, mock_vars, callback_vars, polling_vars,
                   cancelled, spc, calls>>

WaitCheck_keeps_mutex ==
    /\ cpc = "wait"
    /\ IF must_wait
       THEN /\ cpc' = "blocked"
            /\ UNCHANGED <<mutex, status_lock, ret, quiet_status, unseen>>
       ELSE /\ status_lock' = [status_lock EXCEPT !.read = TRUE]
            /\ ret' = status_lock.status
            /\ mutex' = "free"
            /\ cpc' = "idle"
            /\ quiet_status' = FALSE
            /\ unseen' = 0
    /\ UNCHANGED <<core_vars, mock_vars, callback_vars, polling_vars,
                   cancelled, spc, calls>>

WaitCheck_by_value ==
    /\ cpc = "wait"
    /\ IF ret = status_lock.status /\ ~is_final(status_lock.status)
       THEN /\ cpc' = "blocked"
            /\ mutex' = "free"
            /\ UNCHANGED <<status_lock, ret, quiet_status, unseen>>
       ELSE /\ status_lock' = [status_lock EXCEPT !.read = TRUE]
            /\ ret' = status_lock.status
            /\ mutex' = "free"
            /\ cpc' = "idle"
            /\ quiet_status' = FALSE
            /\ unseen' = 0
    /\ UNCHANGED <<core_vars, mock_vars, callback_vars, polling_vars,
                   cancelled, spc, calls>>

\* AsyncOpClient::wait: one evaluation of the loop with the mutex held:
\* either update_cv.wait releases the mutex and blocks, or the status is
\* marked as read and returned
WaitCheck ==
    /\ cpc = "wait"
    /\ IF must_wait
       THEN /\ cpc' = "blocked"
            /\ mutex' = "free"
            /\ UNCHANGED <<status_lock, ret, quiet_status, unseen>>
       ELSE /\ status_lock' = [status_lock EXCEPT !.read = TRUE]
            /\ ret' = status_lock.status
            /\ mutex' = "free"
            /\ cpc' = "idle"
            /\ quiet_status' = FALSE
            /\ unseen' = 0
    /\ UNCHANGED <<core_vars, mock_vars, callback_vars, polling_vars,
                   cancelled, spc, calls>>

\* Condvar::wait may wake up without any notification
WaitSpurious ==
    /\ cpc = "blocked"
    /\ cpc' = "woken"
    /\ UNCHANGED <<core_vars, mock_vars, callback_vars, polling_vars,
                   status_lock, mutex, cancelled, spc, ret, calls,
                   quiet_status, unseen>>

WaitReacquire_return ==
    /\ cpc = "woken"
    /\ mutex = "free"
    /\ status_lock' = [status_lock EXCEPT !.read = TRUE]
    /\ ret' = status_lock.status
    /\ cpc' = "idle"
    /\ quiet_status' = FALSE
    /\ unseen' = 0
    /\ UNCHANGED <<core_vars, mock_vars, callback_vars, polling_vars, mutex,
                   cancelled, spc, calls>>

\* Condvar::wait returns with the mutex taken again
WaitReacquire ==
    /\ cpc = "woken"
    /\ mutex = "free"
    /\ mutex' = "client"
    /\ cpc' = "wait"
    /\ UNCHANGED <<core_vars, mock_vars, callback_vars, polling_vars,
                   status_lock, cancelled, spc, ret, calls, quiet_status,
                   unseen>>

Cancel_toggle ==
    /\ cpc = "idle"
    /\ cancelled' = ~cancelled
    /\ UNCHANGED <<core_vars, mock_vars, callback_vars, polling_vars,
                   status_lock, mutex, spc, client_vars, unseen>>

Cancel_while_active ==
    /\ cpc = "idle"
    /\ server = "alive"
    /\ ~reached_final_status
    /\ cancelled' = TRUE
    /\ UNCHANGED <<core_vars, mock_vars, callback_vars, polling_vars,
                   status_lock, mutex, spc, client_vars, unseen>>

\* AsyncOpClient::cancel
Cancel ==
    /\ cpc = "idle"
    /\ cancelled' = TRUE
    /\ UNCHANGED <<core_vars, mock_vars, callback_vars, polling_vars,
                   status_lock, mutex, spc, client_vars, unseen>>

\* The client handle goes out of scope between two calls: AsyncOpClient has
\* no Drop of its own, the only effect is that its Arc releases one
\* reference to SharedState, which the server's Arc keeps alive
ClientDrop_cancels ==
    /\ cpc = "idle"
    /\ cpc' = "dropped"
    /\ cancelled' = TRUE
    /\ UNCHANGED <<core_vars, mock_vars, callback_vars, polling_vars,
                   status_lock, mutex, spc, ret, calls, quiet_status, unseen>>

ClientDrop ==
    /\ cpc = "idle"
    /\ cpc' = "dropped"
    /\ UNCHANGED <<core_vars, mock_vars, callback_vars, polling_vars,
                   status_lock, mutex, cancelled, spc, ret, calls,
                   quiet_status, unseen>>

NextBlocking ==
    \/ \E status \in WorkerStatus : ServerUpdate(status)
    \/ ServerDrop
    \/ ServerLock
    \/ ServerStore
    \/ ServerNotify
    \/ StatusLock
    \/ StatusBody
    \/ WaitLock
    \/ WaitCheck
    \/ WaitSpurious
    \/ WaitReacquire
    \/ Cancel
    \/ ClientDrop

SpecBlocking == InitBlocking /\ [][NextBlocking]_vars

\* Scheduling of the two threads: a thread that holds the mutex goes on
\* (WF), a thread waiting for a mutex that is free again and again gets it
\* (SF: a waiter blocked in Condvar::wait leaves the mutex free), and the
\* server handle is dropped when its owner is done with it (WF)
LiveBlocking ==
    /\ SpecBlocking
    /\ WF_vars(ServerDrop)
    /\ SF_vars(ServerLock)
    /\ WF_vars(ServerStore)
    /\ WF_vars(ServerNotify)
    /\ WF_vars(WaitCheck)
    /\ SF_vars(WaitReacquire)

\* ---------------------------------------------------------------- polling.rs
\* The variables of the mutex and of the read bit, unused by the polling
\* backend
LockUnused ==
    /\ status_lock = [status |-> NoStatus, read |-> FALSE]
    /\ mutex = "free"
    /\ quiet_status = FALSE
    /\ unseen = 0

lock_vars == <<status_lock, mutex, quiet_status, unseen>>

\* The statuses the worker of the polling model submits: the standard
\* statuses PENDING, RUNNING and DONE, which carry no details;
\* Error(ServerKilled) comes from the destruction of the server
PollingStatus ==
    { Status(tag, "None", 0) : tag \in {"Pending", "Running", "Done"} }

\* Number of sends whose write() has returned (the initial status counts)
completed == IF spc = "swap" THEN Len(sent) - 1 ELSE Len(sent)

PollingAsyncOp_new_cancelled(initial_status) ==
    /\ buffers = [i \in 0 .. 2 |-> [status |-> initial_status, seq |-> 1]]
    /\ back_info = [idx |-> 0, dirty |-> FALSE]
    /\ write_idx = 1
    /\ read_idx = 2
    /\ sent = <<initial_status>>
    /\ cancelled = TRUE
    /\ AsyncOpServer_new(initial_status)

\* AsyncOp::new: TripleBuffer::new(initial_status) fills the three buffers
\* with the initial status, buffer 0 is the clean back buffer, the input
\* owns buffer 1 and the output buffer 2; the flag is unset
PollingAsyncOp_new(initial_status) ==
    /\ buffers = [i \in 0 .. 2 |-> [status |-> initial_status, seq |-> 1]]
    /\ back_info = [idx |-> 0, dirty |-> FALSE]
    /\ write_idx = 1
    /\ read_idx = 2
    /\ sent = <<initial_status>>
    /\ cancelled = FALSE
    /\ AsyncOpServer_new(initial_status)

InitPolling ==
    \E initial_status \in PollingStatus :
        /\ PollingAsyncOp_new(initial_status)
        /\ spc = "idle"
        /\ cpc = "idle"
        /\ ret = NoStatus
        /\ ret_seq = 0
        /\ done_at_start = 0
        /\ calls = 0
        /\ MockUnused
        /\ LockUnused
        /\ CallbackUnused

\* server.update(status): the assertion and the flag, then
\* PollingServerConfig::update starts
PollingUpdate(status) ==
    /\ server = "alive"
    /\ spc = "idle"
    /\ updates < MaxUpdates
    /\ updates' = updates + 1
    /\ AsyncOpServer_update(status,
                            spc' = "write" /\ UNCHANGED <<server, killed>>,
                            UNCHANGED <<spc>>)
    /\ UNCHANGED <<mock_vars, callback_vars, lock_vars, polling_vars,
                   cancelled, cpc, ret, calls>>

\* Drop for AsyncOpServer on the server thread
PollingDrop ==
    /\ server \in {"alive", "panicking"}
    /\ spc = "idle"
    /\ IF ~reached_final_status
       THEN AsyncOpServer_update(ERROR_SERVER_KILLED,
                                 spc' = "write" /\ server' = "dropping"
                                     /\ killed' = TRUE,
                                 FALSE)
       ELSE /\ server' = "dropped"
            /\ UNCHANGED <<debug_assertions, reached_final_status, status_arg,
                           killed, spc>>
    /\ UNCHANGED <<mock_vars, callback_vars, lock_vars, polling_vars, updates,
                   cancelled, cpc, ret, calls>>

\* buf_input.write(status): the value is moved into the write buffer, which
\* the input owns
InputWrite ==
    /\ spc = "write"
    /\ buffers' = [buffers EXCEPT ![write_idx] =
                      [status |-> status_arg, seq |-> Len(sent) + 1]]
    /\ sent' = Append(sent, status_arg)
    /\ spc' = "swap"
    /\ UNCHANGED <<core_vars, mock_vars, callback_vars, lock_vars, back_info,
                   write_idx, read_idx, ret_seq, done_at_start, cancelled, cpc,
                   ret, calls>>

InputPublish_waits ==
    /\ spc = "swap"
    /\ ~back_info.dirty
    /\ back_info' = [idx |-> write_idx, dirty |-> TRUE]
    /\ write_idx' = back_info.idx
    /\ spc' = "idle"
    /\ server' = IF server = "dropping" THEN "dropped" ELSE server
    /\ UNCHANGED <<mock_vars, callback_vars, lock_vars, debug_assertions,
                   reached_final_status, updates, status_arg, killed, buffers,
                   read_idx, sent, ret_seq, done_at_start, cancelled, cpc, ret,
                   calls>>

\* buf_input.write(status): one atomic swap publishes the write buffer as
\* the dirty back buffer and takes the former back buffer to write to; when
\* it was called from drop, the handle is gone afterwards
InputPublish ==
    /\ spc = "swap"
    /\ back_info' = [idx |-> write_idx, dirty |-> TRUE]
    /\ write_idx' = back_info.idx
    /\ spc' = "idle"
    /\ server' = IF server = "dropping" THEN "dropped" ELSE server
    /\ UNCHANGED <<mock_vars, callback_vars, lock_vars, debug_assertions,
                   reached_final_status, updates, status_arg, killed, buffers,
                   read_idx, sent, ret_seq, done_at_start, cancelled, cpc, ret,
                   calls>>

\* PollingServerConfig::cancelled: load of the flag
PollingServerCancelled == cancelled

OutputLoad_stale ==
    /\ cpc = "idle"
    /\ calls < MaxCalls
    /\ calls' = calls + 1
    /\ done_at_start' = completed
    /\ cpc' = "deref"
    /\ UNCHANGED <<core_vars, mock_vars, callback_vars, lock_vars, buffers,
                   back_info, write_idx, read_idx, sent, ret_seq, cancelled,
                   spc, ret>>

OutputLoad_always ==
    /\ cpc = "idle"
    /\ calls < MaxCalls
    /\ calls' = calls + 1
    /\ done_at_start' = completed
    /\ cpc' = "swap"
    /\ UNCHANGED <<core_vars, mock_vars, callback_vars, lock_vars, buffers,
                   back_info, write_idx, read_idx, sent, ret_seq, cancelled,
                   spc, ret>>

\* AsyncOpClient::status, buf_output.read(): load of the dirty bit of the
\* back buffer
OutputLoad ==
    /\ cpc = "idle"
    /\ calls < MaxCalls
    /\ calls' = calls + 1
    /\ done_at_start' = completed
    /\ cpc' = IF back_info.dirty THEN "swap" ELSE "deref"
    /\ UNCHANGED <<core_vars, mock_vars, callback_vars, lock_vars, buffers,
                   back_info, write_idx, read_idx, sent, ret_seq, cancelled,
                   spc, ret>>

\* buf_output.read(): one atomic swap gives the read buffer back as the clean
\* back buffer and takes the former back buffer to read from
OutputSwap ==
    /\ cpc = "swap"
    /\ back_info' = [idx |-> read_idx, dirty |-> FALSE]
    /\ read_idx' = back_info.idx
    /\ cpc' = "deref"
    /\ UNCHANGED <<core_vars, mock_vars, callback_vars, lock_vars, buffers,
                   write_idx, sent, ret_seq, done_at_start, cancelled, spc,
                   ret, calls>>

\* buf_output.read(): the status in the read buffer, which the output owns
OutputDeref ==
    /\ cpc = "deref"
    /\ ret' = buffers[read_idx].status
    /\ ret_seq' = buffers[read_idx].seq
    /\ cpc' = "idle"
    /\ UNCHANGED <<core_vars, mock_vars, callback_vars, lock_vars, buffers,
                   back_info, write_idx, read_idx, sent, done_at_start,
                   cancelled, spc, calls>>

\* AsyncOpClient::cancel
PollingCancel ==
    /\ cpc = "idle"
    /\ cancelled' = TRUE
    /\ UNCHANGED <<core_vars, mock_vars, callback_vars, lock_vars,
                   polling_vars, spc, cpc, ret, calls>>

\* The client handle goes out of scope between two calls: its
\* TripleBufferOutput and its Arc<AtomicBool> release their references, the
\* buffer and the flag stay alive through the server's halves
PollingClientDrop ==
    /\ cpc = "idle"
    /\ cpc' = "dropped"
    /\ UNCHANGED <<core_vars, mock_vars, callback_vars, lock_vars,
                   polling_vars, cancelled, spc, ret, calls>>

NextPolling ==
    \/ \E status \in PollingStatus : PollingUpdate(status)
    \/ PollingDrop
    \/ InputWrite
    \/ InputPublish
    \/ OutputLoad
    \/ OutputSwap
    \/ OutputDeref
    \/ PollingCancel
    \/ PollingClientDrop

SpecPolling == InitPolling /\ [][NextPolling]_vars

\* --------------------------------------------------------- executor/inline.rs
\* The Details types a channel can be set up or used with
TypeIds == 1 .. MaxTypeId

\* The variables of the server core, unused by a channel used on its own
ServerUnused ==
    /\ debug_assertions = FALSE
    /\ server = "none"
    /\ reached_final_status = FALSE
    /\ updates = 0
    /\ status_arg = NoStatus
    /\ killed = FALSE

\* InlineCallbackExecutor::setup_callback<F, Details>: the callback is boxed
\* in an InlineCallbackChannel<Details>, itself boxed as Any; nothing is called
setup_callback(D) ==
    /\ holder = D
    /\ received = <<>>

is_compatible_always(D) == holder # 0

\* AnyInlineCallbackChannel::is_compatible<Details>:
\* holder.is::<InlineCallbackChannel<Details>>()
is_compatible(D) == holder = D

\* AnyInlineCallbackChannel::notify<Details>: is
\* holder.downcast_mut::<InlineCallbackChannel<Details>>() a Some
downcast_mut(D) == holder = D

InlineCallbackChannel_notify_twice(new_status) ==
    received' = Append(Append(received, new_status), new_status)

\* InlineCallbackChannel::notify: (self.callback)(new_status)
InlineCallbackChannel_notify(new_status) ==
    received' = Append(received, new_status)

InitInline ==
    \E D \in TypeIds :
        /\ setup_callback(D)
        /\ compat = <<0, FALSE>>
        /\ unwrap_failed = FALSE
        /\ ServerUnused
        /\ MockUnused
        /\ BlockingUnused
        /\ PollingUnused

\* channel.is_compatible::<Details>() called on the channel
IsCompatible(D) ==
    /\ ~unwrap_failed
    /\ compat' = <<D, is_compatible(D)>>
    /\ UNCHANGED <<core_vars, mock_vars, blocking_vars, polling_vars, holder,
                   received, unwrap_failed>>

Notify_unchecked(D, new_status) ==
    /\ ~unwrap_failed
    /\ Len(received) < MaxUpdates
    /\ InlineCallbackChannel_notify(new_status)
    /\ UNCHANGED <<core_vars, mock_vars, blocking_vars, polling_vars, holder,
                   compat, unwrap_failed>>

\* channel.notify::<Details>(new_status) called on the channel: unwrap()
\* panics when the downcast fails, else the inner channel is notified
Notify(D, new_status) ==
    /\ ~unwrap_failed
    /\ Len(received) < MaxUpdates
    /\ IF downcast_mut(D)
       THEN /\ InlineCallbackChannel_notify(new_status)
            /\ UNCHANGED unwrap_failed
       ELSE /\ unwrap_failed' = TRUE
            /\ UNCHANGED received
    /\ UNCHANGED <<core_vars, mock_vars, blocking_vars, polling_vars, holder,
                   compat>>

NextInline ==
    \/ \E D \in TypeIds : IsCompatible(D)
    \/ \E D \in TypeIds, new_status \in WorkerStatus :
          Notify(D, new_status)

SpecInline == InitInline /\ [][NextInline]_vars

\* --------------------------------------------------------------- callback.rs
new_async_op_eager(D, initial_status) ==
    /\ holder = D
    /\ received = <<initial_status>>
    /\ cancelled = FALSE
    /\ AsyncOpServer_new(initial_status)

\* new_async_op<Details, F, Executor>: a channel for the callback on the
\* executor, the flag unset, the server with a CallbackServerConfig<Details>
new_async_op(D, initial_status) ==
    /\ setup_callback(D)
    /\ cancelled = FALSE
    /\ AsyncOpServer_new(initial_status)

InitCallback ==
    \E D \in TypeIds, initial_status \in WorkerStatus :
        /\ new_async_op(D, initial_status)
        /\ compat = <<0, FALSE>>
        /\ unwrap_failed = FALSE
        /\ spc = "idle"
        /\ cpc = "idle"
        /\ ret = NoStatus
        /\ calls = 0
        /\ MockUnused
        /\ LockUnused
        /\ PollingUnused

\* server.update(status): the assertion and the flag, then
\* CallbackServerConfig::update starts
CallbackUpdate(status) ==
    /\ server = "alive"
    /\ spc = "idle"
    /\ updates < MaxUpdates
    /\ updates' = updates + 1
    /\ AsyncOpServer_update(status,
                            spc' = "notify" /\ UNCHANGED <<server, killed>>,
                            UNCHANGED <<spc>>)
    /\ UNCHANGED <<mock_vars, lock_vars, polling_vars, callback_vars,
                   cancelled, cpc, ret, calls>>

CallbackDrop_silent ==
    /\ server \in {"alive", "panicking"}
    /\ spc = "idle"
    /\ server' = "dropped"
    /\ killed' = ~reached_final_status
    /\ UNCHANGED <<debug_assertions, reached_final_status, status_arg, spc>>
    /\ UNCHANGED <<mock_vars, lock_vars, polling_vars, callback_vars, updates,
                   cancelled, cpc, ret, calls>>

\* Drop for AsyncOpServer on the server thread
CallbackDrop ==
    /\ server \in {"alive", "panicking"}
    /\ spc = "idle"
    /\ IF ~reached_final_status
       THEN AsyncOpServer_update(ERROR_SERVER_KILLED,
                                 spc' = "notify" /\ server' = "dropping"
                                     /\ killed' = TRUE,
                                 FALSE)
       ELSE /\ server' = "dropped"
            /\ UNCHANGED <<debug_assertions, reached_final_status, status_arg,
                           killed, spc>>
    /\ UNCHANGED <<mock_vars, lock_vars, polling_vars, callback_vars, updates,
                   cancelled, cpc, ret, calls>>

\* CallbackServerConfig::update: self.channel.notify(status), with the
\* Details of the configuration, which new_async_op makes the Details of the
\* channel: the downcast of AnyInlineCallbackChannel::notify
ChannelNotify ==
    /\ spc = "notify"
    /\ IF downcast_mut(holder)
       THEN /\ spc' = "callback"
            /\ UNCHANGED <<server, unwrap_failed>>
       ELSE /\ spc' = "idle"
            /\ unwrap_failed' = TRUE
            /\ server' = IF server = "dropping" THEN "dropped" ELSE "panicking"
    /\ UNCHANGED <<mock_vars, lock_vars, polling_vars, debug_assertions,
                   reached_final_status, updates, status_arg, killed, holder,
                   received, compat, cancelled, cpc, ret, calls>>

CallbackRun_deferred ==
    /\ spc = "callback"
    /\ spc' = "idle"
    /\ server' = IF server = "dropping" THEN "dropped" ELSE server
    /\ UNCHANGED <<mock_vars, lock_vars, polling_vars, debug_assertions,
                   reached_final_status, updates, status_arg, killed, holder,
                   received, compat, unwrap_failed, cancelled, cpc, ret,
                   calls>>

CallbackRun_twice ==
    /\ spc = "callback"
    /\ InlineCallbackChannel_notify_twice(status_arg)
    /\ spc' = "idle"
    /\ server' = IF server = "dropping" THEN "dropped" ELSE server
    /\ UNCHANGED <<mock_vars, lock_vars, polling_vars, debug_assertions,
                   reached_final_status, updates, status_arg, killed, holder,
                   compat, unwrap_failed, cancelled, cpc, ret, calls>>

CallbackRun_unless_cancelled ==
    /\ spc = "callback"
    /\ IF cancelled
       THEN UNCHANGED received
       ELSE InlineCallbackChannel_notify(status_arg)
    /\ spc' = "idle"
    /\ server' = IF server = "dropping" THEN "dropped" ELSE server
    /\ UNCHANGED <<mock_vars, lock_vars, polling_vars, debug_assertions,
                   reached_final_status, updates, status_arg, killed, holder,
                   compat, unwrap_failed, cancelled, cpc, ret, calls>>

\* InlineCallbackChannel::notify runs the callback on the server thread; when
\* it returns, notify() and update() return; when update() was called from
\* drop, the handle is gone afterwards
CallbackRun ==
    /\ spc = "callback"
    /\ InlineCallbackChannel_notify(status_arg)
    /\ spc' = "idle"
    /\ server' = IF server = "dropping" THEN "dropped" ELSE server
    /\ UNCHANGED <<mock_vars, lock_vars, polling_vars, debug_assertions,
                   reached_final_status, updates, status_arg, killed, holder,
                   compat, unwrap_failed, cancelled, cpc, ret, calls>>

\* CallbackServerConfig::cancelled: load of the flag
CallbackServerCancelled == cancelled

CallbackCancel_notifies ==
    /\ cancelled' = TRUE
    /\ received' = Append(received, Status("Cancelled", "None", 0))
    /\ UNCHANGED <<core_vars, mock_vars, lock_vars, polling_vars, holder,
                   compat, unwrap_failed, spc, cpc, ret, calls>>

\* AsyncOpClient::cancel
CallbackCancel ==
    /\ cancelled' = TRUE
    /\ UNCHANGED <<core_vars, mock_vars, lock_vars, polling_vars,
                   callback_vars, spc, cpc, ret, calls>>

NextCallback ==
    \/ \E status \in WorkerStatus : CallbackUpdate(status)
    \/ CallbackDrop
    \/ ChannelNotify
    \/ CallbackRun
    \/ CallbackCancel

SpecCallback == InitCallback /\ [][NextCallback]_vars

\* ------------------------------------------------------------ multithread
\* The three backends side by side: an operation is created on one of them
\* and is then run by the steps of that backend
OnBlocking == status_lock.status # NoStatus

OnPolling == sent # <<>>

OnCallback == holder # 0 /\ server # "none"

InitBackends == InitBlocking \/ InitPolling \/ InitCallback

NextBackends ==
    \/ OnBlocking /\ NextBlocking
    \/ OnPolling /\ NextPolling
    \/ OnCallback /\ NextCallback

SpecBackends == InitBackends /\ [][NextBackends]_vars

\* ================================================================== claims
FinalTags == {"Done", "Cancelled", "Error"}

\* The server handle is destroyed in this step
Destroyed == server \in {"alive", "panicking"} /\ server' = "dropped"

\* C1: destroying a server that is still Active forwards Error(ServerKilled)
\* to the backend exactly once and leaves the server Finalized.
C1_DropActiveSendsKilledOnce ==
    [][ (Destroyed /\ ~reached_final_status) =>
            /\ update_count' = update_count + 1
            /\ last_status' = ERROR_SERVER_KILLED
            /\ reached_final_status' ]_vars

C1_Witness ==
    /\ server = "dropped"
    /\ killed
    /\ updates >= 1
    /\ last_status = ERROR_SERVER_KILLED
    /\ update_count = updates + 1

\* C3: update() on a Finalized server fails with an assertion failure: no
\* status is accepted or forwarded while the reached-final flag is set.
C3_FinalizedUpdateFails ==
    [][ (server = "alive" /\ reached_final_status /\ updates' = updates + 1) =>
            /\ server' = "panicking"
            /\ update_count' = update_count
            /\ last_status' = last_status ]_vars

\* C6: is_final is false for Pending and Running and true for Done, Cancelled
\* and Error, whatever the payload: it is a function of the variant tag.
C6_IsFinalByTag ==
    probe[1] # NoStatus => (probe[2] <=> probe[1].tag \in FinalTags)

C6_Witness == probe = <<Status("Error", "CustomError", MaxDetail), TRUE>>

\* C7: a newly created server has its flag equal to is_final(initial status)
\* and has sent nothing: update count 0, last status the initial one.
C7_NewServerState ==
    (server = "alive" /\ updates = 0) =>
        /\ reached_final_status = is_final(last_status)
        /\ update_count = 0
        /\ status_arg = NoStatus

C7_Witness ==
    /\ server = "alive"
    /\ updates = 0
    /\ reached_final_status
    /\ last_status.tag = "Cancelled"

\* C8: update(status) on an Active server forwards exactly that status
\* exactly once and leaves the flag equal to is_final(status).
C8_UpdateForwardsOnce ==
    [][ (server = "alive" /\ ~reached_final_status /\ updates' = updates + 1) =>
            /\ update_count' = update_count + 1
            /\ last_status' = status_arg'
            /\ reached_final_status' = is_final(status_arg')
            /\ server' = "alive" ]_vars

C8_Witness ==
    /\ server = "alive"
    /\ updates = 2
    /\ update_count = 2
    /\ last_status.tag = "Done"
    /\ reached_final_status

\* C9: destroying a Finalized server forwards nothing: the last status of the
\* backend stays the terminal status it had, not Error(ServerKilled).
C9_DropFinalizedSendsNothing ==
    [][ (Destroyed /\ reached_final_status) =>
            /\ update_count' = update_count
            /\ last_status' = last_status
            /\ is_final(last_status')
            /\ ~killed' ]_vars

C9_Witness ==
    /\ server = "dropped"
    /\ ~killed
    /\ last_status.tag = "Done"
    /\ update_count = updates

\* A status() or wait() call of the client returns in this step
ClientReturns == cpc \in {"status", "wait"} /\ cpc' = "idle"

\* C2: blocking backend: after the server was destroyed while Active, every
\* status() or wait() that returns gives Error(ServerKilled), and nothing else
\* is observed after it.
C2_KilledIsObservedLast ==
    [][ (killed /\ server = "dropped") =>
            /\ (ClientReturns => ret' = ERROR_SERVER_KILLED)
            /\ (ret = ERROR_SERVER_KILLED => ret' = ERROR_SERVER_KILLED)
            /\ status_lock.status = ERROR_SERVER_KILLED ]_vars

C2_Witness ==
    /\ debug_assertions
    /\ server = "dropped"
    /\ killed
    /\ updates >= 2
    /\ cpc = "idle"
    /\ calls >= 2
    /\ ret = ERROR_SERVER_KILLED

\* C4: once a terminal status is stored in the backend's channel, the stored
\* status never changes again.
C4_TerminalNeverOverwritten ==
    [][ is_final(status_lock.status) =>
            status_lock'.status = status_lock.status ]_vars

\* C5: blocking backend: a client blocked in wait() eventually returns, the
\* server handle being eventually destroyed if it submits nothing more.
C5_BlockedWaitReturns == (cpc = "blocked") ~> (cpc = "idle")

C5_Witness ==
    /\ cpc = "woken"
    /\ server = "dropped"
    /\ killed
    /\ status_lock = [status |-> ERROR_SERVER_KILLED, read |-> FALSE]

\* C10 as stated: status() then wait() with no update in between: wait()
\* returns without blocking, with the value status() returned.
C10_WaitAfterStatusNeverBlocks ==
    [][ quiet_status =>
            /\ cpc' # "blocked"
            /\ (ClientReturns => ret' = ret) ]_vars

\* C10 amended: status() then wait() with no update in between: when the
\* value status() returned is terminal, wait() returns it without blocking;
\* when it is not terminal, wait() does not return, it blocks.
C10_WaitAfterStatus ==
    [][ (quiet_status /\ cpc = "wait") =>
            IF is_final(ret)
            THEN cpc' \in {"idle", "wait"} /\ ret' = ret
            ELSE cpc' \in {"blocked", "wait"} /\ ret' = ret ]_vars

C10_Witness ==
    /\ quiet_status
    /\ cpc = "wait"
    /\ is_final(ret)
    /\ status_lock.read
    /\ updates >= 1

\* C11: blocking backend: wait() returns only a status that is unread or
\* terminal at the moment of the return; a waiter that wakes up, notified or
\* not, tests the condition again; only a send makes a read status unread.
C11_WaitReturnsFreshOrFinal ==
    [][ /\ (cpc = "wait" /\ cpc' = "idle") =>
              /\ ~status_lock.read \/ is_final(status_lock.status)
              /\ ret' = status_lock.status
        /\ cpc \in {"blocked", "woken"} => cpc' \in {"blocked", "woken", "wait"}
        /\ (status_lock.read /\ ~status_lock'.read) => spc = "store" ]_vars

C11_Witness ==
    /\ cpc = "woken"
    /\ status_lock.read
    /\ ~is_final(status_lock.status)
    /\ ret = status_lock.status
    /\ updates >= 1

\* C12: blocking backend: once a terminal status is stored, no wait() finds
\* the condition to block on any more (stored status read and non-terminal),
\* whatever the read bit and the calls made before.
C12_WaitNeverBlocksAgain ==
    [](is_final(status_lock.status) =>
          [](cpc = "wait" => ~(status_lock.read /\
                               ~is_final(status_lock.status))))

C14_StatusReturnsStored ==
    [][ /\ cpc = "status" => cpc' \in {"status", "idle"}
        /\ (cpc = "status" /\ cpc' = "idle") =>
              /\ ret' = status_lock.status
              /\ status_lock' = [status |-> status_lock.status, read |-> TRUE]
        /\ status_arg' = NoStatus => status_lock'.status = status_lock.status
        /\ (spc' = "idle" /\ server' = "alive" /\ status_arg' # NoStatus) =>
              status_lock'.status = status_arg' ]_vars

C14_Witness ==
    /\ quiet_status
    /\ updates = 2
    /\ ret = status_arg
    /\ ret.tag = "Done"
    /\ status_lock = [status |-> ret, read |-> TRUE]

\* C15: blocking backend: every send replaces the stored pair by
\* (status, read = false), whatever the read bit was, then wakes the waiter.
C15_SendStoresUnreadAndWakes ==
    [][ /\ (spc = "store" /\ spc' # "store") =>
              /\ status_lock' = [status |-> status_arg, read |-> FALSE]
              /\ spc' = "notify"
        /\ (spc = "notify" /\ spc' # "notify") => cpc' # "blocked" ]_vars

C15_Witness ==
    /\ spc = "idle"
    /\ cpc = "woken"
    /\ status_lock = [status |-> status_arg, read |-> FALSE]
    /\ server = "alive"

\* C16: a new blocking operation stores the initial status with read = false
\* and the cancellation flag unset, so that a first wait() returns the stored
\* status at once, also a non-terminal one.
C16_NewOpIsUnread ==
    /\ status_lock.read = FALSE
    /\ cancelled = FALSE
    /\ [][ (calls = 1 /\ ret = NoStatus /\ cpc = "wait") =>
              /\ cpc' # "blocked"
              /\ cpc' = "idle" => ret' = status_lock.status ]_vars

C16_Witness ==
    /\ calls = 1
    /\ cpc = "idle"
    /\ ~quiet_status
    /\ status_arg = NoStatus
    /\ ~is_final(ret)
    /\ status_lock = [status |-> ret, read |-> TRUE]

\* A status() call of the polling backend returns
StatusReturns == cpc = "deref" /\ cpc' = "idle"

\* C17: polling backend: status() returns the status of a send that is not
\* older than the last send completed when the call began (the initial status
\* counts as the first send); with no later send it is exactly that one.
C17_StatusReflectsCompletedSend ==
    [][ StatusReturns =>
            /\ ret_seq' >= done_at_start
            /\ ret_seq' <= Len(sent)
            /\ ret' = sent[ret_seq'] ]_vars

C17_Witness ==
    /\ cpc = "idle"
    /\ updates = 1
    /\ spc = "idle"
    /\ done_at_start = 2
    /\ ret_seq = 2
    /\ ret = Status("Done", "None", 0)

\* C18: polling backend: the statuses successive status() calls return
\* follow submission order: sends may be skipped, but no status() returns a
\* send older than the one the call before returned.
C18_StatusNeverGoesBack ==
    [][ ret_seq' >= ret_seq ]_vars

C18_Witness ==
    /\ cpc = "deref"
    /\ ret_seq = 1
    /\ buffers[read_idx].seq = 3
    /\ spc = "swap"

\* C19: polling backend: neither side waits for the other: every step of a
\* send and every step of a status() can be taken in whatever state the other
\* side is, also while the previous value is not consumed.
C19_NeitherSideBlocks ==
    /\ spc = "write" => ENABLED InputWrite
    /\ spc = "swap" => ENABLED InputPublish
    /\ cpc = "swap" => ENABLED OutputSwap
    /\ cpc = "deref" => ENABLED OutputDeref

C19_Witness ==
    /\ spc = "swap"
    /\ back_info.dirty
    /\ cpc = "swap"
    /\ Len(sent) = 3

\* C20: polling backend: a new operation has the cancellation flag unset,
\* and as long as no status was submitted every status() returns the
\* initial status.
C20_NewPollingOp ==
    /\ PollingServerCancelled = FALSE
    /\ [][ (StatusReturns /\ status_arg = NoStatus) =>
              /\ ret' = sent[1]
              /\ is_final(ret') = reached_final_status ]_vars

C20_Witness ==
    /\ calls >= 2
    /\ cpc = "idle"
    /\ status_arg = NoStatus
    /\ server = "alive"
    /\ ~PollingServerCancelled
    /\ ret = sent[1]

\* C21: setting up the channel and creating a callback-based operation call
\* the callback zero times: nothing is received before the first update() or
\* the destruction of an Active server.
C21_NoCallbackBeforeFirstSend ==
    status_arg = NoStatus => received = <<>>

C21_Witness ==
    /\ status_arg = NoStatus
    /\ server = "dropped"
    /\ CallbackServerCancelled
    /\ received = <<>>

\* C22: callback backend, inline executor: every update() accepted by the
\* server calls the callback exactly once with the status submitted, so that
\* N updates give N invocations in submission order.
C22_OneCallbackPerUpdate ==
    /\ []((spc = "idle" /\ server = "alive") => Len(received) = updates)
    /\ [][ received' # received =>
              /\ spc = "callback"
              /\ received' = Append(received, status_arg) ]_vars

C22_Witness ==
    /\ spc = "idle"
    /\ server = "alive"
    /\ updates >= 3
    /\ Len(received) = updates
    /\ received[1] # received[2]
    /\ received[3] = status_arg

\* C23: callback backend, inline executor: when update(status) has returned,
\* also the update() of the destruction, the callback has been called with
\* that status: nothing is left to be delivered later.
C23_CallbackDoneAtReturn ==
    (/\ spc = "idle"
     /\ \/ server = "alive" /\ status_arg # NoStatus
        \/ server = "dropped" /\ killed) =>
        /\ received # <<>>
        /\ received[Len(received)] = status_arg

C23_Witness ==
    /\ spc = "idle"
    /\ server = "dropped"
    /\ killed
    /\ Len(received) >= 2
    /\ received[Len(received)] = ERROR_SERVER_KILLED

\* C24: a type-erased inline channel keeps the Details type it was set up
\* with, and is_compatible<D>() is true exactly when D is that type.
C24_IsCompatibleExactly ==
    /\ [](compat[1] # 0 => compat[2] = (compat[1] = holder))
    /\ [][holder' = holder]_vars

C24_Witness ==
    /\ compat[1] \in TypeIds \ {holder}
    /\ compat[2] = FALSE
    /\ Len(received) >= 1

\* C25: notify<D>(status) on a type-erased inline channel set up for another
\* Details type panics and leaves the callback uncalled; with the type of the
\* channel it calls the callback exactly once, with that status.
C25_NotifyChecksType ==
    [][ \A D \in TypeIds, new_status \in WorkerStatus :
          Notify(D, new_status) =>
              IF D = holder
              THEN /\ received' = Append(received, new_status)
                   /\ ~unwrap_failed'
              ELSE /\ received' = received
                   /\ unwrap_failed' ]_vars

C25_Witness ==
    /\ unwrap_failed
    /\ Len(received) = 1
    /\ is_final(received[1])

\* A cancel() call of one of the three clients
CancelCalled == Cancel \/ PollingCancel \/ CallbackCancel

\* C26: in the three backends the cancellation flag is unset at first, only
\* cancel() sets it, every cancel() leaves it set, and no update, read or
\* further cancel() unsets it.
C26_CancelFlagMonotonic ==
    /\ ~cancelled
    /\ [][ /\ cancelled => cancelled'
           /\ (cancelled' /\ ~cancelled) => CancelCalled
           /\ CancelCalled => cancelled' ]_vars

C26_Witness ==
    /\ cancelled
    /\ updates >= 2
    /\ calls >= 2
    /\ server = "dropped"

\* C27: cancel() changes the cancellation flag and nothing else: the stored
\* status, the read bit, the triple buffer, the reached-final flag of the
\* server and what the callback received stay as they are.
C27_CancelChangesOnlyFlag ==
    [][ cancelled' # cancelled =>
            UNCHANGED <<core_vars, lock_vars, polling_vars, callback_vars,
                        spc, cpc, ret, calls>> ]_vars

C27_Witness ==
    /\ OnCallback
    /\ cancelled
    /\ server = "alive"
    /\ updates >= 1
    /\ Len(received) = updates

\* C28: whenever the client is not inside another call, also after a terminal
\* status or after the destruction of the server handle, cancel() can be
\* called, sets the flag, and leaves the status channel as it is.
C28_CancelAlwaysRecorded ==
    (cpc = "idle" /\ (server = "dropped" \/ reached_final_status)) =>
        /\ OnBlocking =>
              ENABLED (Cancel /\ cancelled' /\ status_lock' = status_lock)
        /\ OnPolling =>
              ENABLED (PollingCancel /\ cancelled' /\ sent' = sent)
        /\ OnCallback =>
              ENABLED (CallbackCancel /\ cancelled' /\ received' = received)

C28_Witness ==
    /\ OnBlocking
    /\ cancelled
    /\ cpc = "idle"
    /\ server = "dropped"
    /\ killed
    /\ status_lock = [status |-> ERROR_SERVER_KILLED, read |-> TRUE]

\* C29: polling backend: once a terminal update() or the destruction of an
\* Active server has completed its send, every status() that begins
\* afterwards returns that terminal status.
C29_TerminalNeverLost ==
    [][ StatusReturns =>
            \A k \in 2 .. done_at_start :
                is_final(sent[k]) => ret' = sent[k] ]_vars

\* C30: blocking backend: no wake-up is missed: a waiter is blocked only
\* while the stored status is read and non-terminal, or while the notification
\* of the send that changed it is still to come; the test and the decision to
\* block are made with the mutex held, and the writer stores with it held.
C30_NoMissedWakeup ==
    /\ cpc = "blocked" => (must_wait \/ spc = "notify")
    /\ cpc = "wait" => mutex = "client"
    /\ spc = "store" => mutex = "server"

C30_Witness ==
    /\ cpc = "blocked"
    /\ ~status_lock.read
    /\ spc = "notify"
    /\ status_lock.status = ret

\* C31: blocking backend: an update with a status equal to the stored one
\* is new data: the store resets the read bit, and a wait() that finds the
\* read bit reset returns without blocking.
C31_RepeatedStatusIsNew ==
    [][ /\ (spc = "store" /\ spc' # "store" /\
            status_arg = status_lock.status) =>
              status_lock' = [status |-> status_arg, read |-> FALSE]
        /\ (cpc = "wait" /\ ~status_lock.read) =>
              /\ cpc' # "blocked"
              /\ cpc' = "idle" => ret' = status_lock.status ]_vars

C31_Witness ==
    /\ cpc = "woken"
    /\ ret = Status("Running", "None", MaxDetail)
    /\ status_lock = [status |-> ret, read |-> FALSE]
    /\ status_arg = ret
    /\ spc = "idle"

\* C32: blocking backend: the statuses successive status()/wait() calls
\* return follow submission order: the stored status is the initial one or
\* the one stored last, every read returns the stored status, and a read
\* with no store since the read before returns the same status again.
C32_ReadsFollowSubmissionOrder ==
    [][ /\ status_lock'.status # status_lock.status =>
              /\ spc = "store"
              /\ status_lock'.status = status_arg
        /\ ClientReturns => ret' = status_lock.status
        /\ (ClientReturns /\ unseen = 0 /\ ret # NoStatus) => ret' = ret
      ]_vars

C32_Witness ==
    /\ cpc = "idle"
    /\ calls >= 3
    /\ updates >= 2
    /\ spc = "lock"
    /\ ret # status_arg
    /\ status_lock = [status |-> ret, read |-> TRUE]

\* C33: blocking backend: a client blocked in wait() does not hold the mutex,
\* so that an update() that waits for the mutex can take it, and the two
\* threads are never both blocked.
C33_BlockedClientHoldsNoLock ==
    /\ cpc \in {"blocked", "woken"} => mutex # "client"
    /\ (cpc = "blocked" /\ spc = "lock") => ENABLED ServerLock
    /\ (cpc = "blocked" /\ spc = "store") => ENABLED ServerStore

C33_Witness ==
    /\ cpc = "blocked"
    /\ spc = "lock"
    /\ mutex = "free"
    /\ server = "dropping"

\* C34: between operations the reached-final flag of the server is is_final
\* of the status forwarded last, or of the initial status when none was
\* forwarded; with the assertion active it never goes from true to false.
C34_FlagTracksLastForwarded ==
    /\ [](reached_final_status = is_final(last_status))
    /\ [][ (debug_assertions /\ reached_final_status) =>
              reached_final_status' ]_vars

C34_Witness ==
    /\ server = "alive"
    /\ update_count >= 2
    /\ reached_final_status
    /\ last_status = Status("Done", "None", 0)

\* A step in which update() fails its assertion
UpdateRejected == server = "alive" /\ server' = "panicking"

\* C35: an update() that fails its assertion forwards nothing and leaves the
\* reached-final flag true, and the destruction that follows sends no
\* Error(ServerKilled).
C35_RejectedUpdateChangesNothing ==
    [][ /\ UpdateRejected =>
              /\ reached_final_status /\ reached_final_status'
              /\ UNCHANGED <<last_status, update_count, killed>>
        /\ (server = "panicking" /\ server' # "panicking") =>
              /\ server' = "dropped"
              /\ ~killed'
              /\ UNCHANGED <<last_status, update_count,
                             reached_final_status>> ]_vars

C35_Witness ==
    /\ server = "dropped"
    /\ debug_assertions
    /\ ~killed
    /\ status_arg \notin {NoStatus, last_status}
    /\ update_count >= 1

\* C36: a server created with a non-terminal status forwards at most one
\* terminal status to the backend, and nothing after it; once it is
\* destroyed it has forwarded one, which is the last status forwarded.
C36_OneTerminalStatus ==
    ~is_final(sent[1]) =>
        /\ \A i \in 2 .. Len(sent) - 1 : ~is_final(sent[i])
        /\ (server = "dropped" /\ spc = "idle") =>
              /\ Len(sent) >= 2
              /\ is_final(sent[Len(sent)])

\* C37: callback backend: the destruction of an Active server calls the
\* callback once more, with Error(ServerKilled), and nothing is received
\* after it; the destruction of a Finalized server calls it zero times.
C37_DropNotifiesOnceIfActive ==
    [][ /\ (server \in {"alive", "panicking"} /\ server' = "dropping") =>
              /\ ~reached_final_status
              /\ status_arg' = ERROR_SERVER_KILLED
              /\ received' = received
        /\ (server \in {"alive", "panicking"} /\ server' = "dropped") =>
              /\ reached_final_status
              /\ received' = received
        /\ (server = "dropping" /\ server' # "dropping") =>
              /\ server' = "dropped"
              /\ received' = Append(received, ERROR_SERVER_KILLED)
        /\ (server = "dropping" /\ server' = "dropping") =>
              received' = received
        /\ server = "dropped" => received' = received ]_vars

C37_Witness ==
    /\ server = "dropped"
    /\ updates = 0
    /\ received = <<ERROR_SERVER_KILLED>>

\* C38: callback backend: a cancellation request suppresses no delivery: an
\* update() or a destruction that takes place with the flag set still calls
\* the callback with its status.
C38_CancelDoesNotSuppress ==
    [][ (cancelled /\ spc # "idle" /\ spc' = "idle") =>
            /\ spc = "callback"
            /\ received' = Append(received, status_arg) ]_vars

C38_Witness ==
    /\ cancelled
    /\ spc = "callback"
    /\ server = "dropping"
    /\ updates >= 1
    /\ Len(received) = updates

\* C39: blocking and polling backends: the destruction of the client handle
\* sends no status and changes nothing the server reads or writes; with the
\* client gone every step of update() and of the server's destruction can
\* still be taken; with the server gone first, the shared state holds a
\* terminal status, the client can still call status(), and the call
\* returns that status.
ClientGone == cpc = "dropped"

ServerGone == server = "dropped" /\ spc = "idle"

C39_ServerWorksWithoutClient ==
    ClientGone =>
        /\ mutex # "client"
        /\ (OnBlocking /\ server = "alive" /\ spc = "idle") =>
              /\ ENABLED ServerDrop
              /\ updates < MaxUpdates =>
                    \A status \in WorkerStatus : ENABLED ServerUpdate(status)
        /\ (OnBlocking /\ spc = "lock") => ENABLED ServerLock
        /\ (OnBlocking /\ spc = "store") => ENABLED ServerStore
        /\ (OnBlocking /\ spc = "notify") => ENABLED ServerNotify
        /\ (OnPolling /\ server = "alive" /\ spc = "idle") =>
              /\ ENABLED PollingDrop
              /\ updates < MaxUpdates =>
                    \A status \in PollingStatus : ENABLED PollingUpdate(status)
        /\ (OnPolling /\ spc = "write") => ENABLED InputWrite
        /\ (OnPolling /\ spc = "swap") => ENABLED InputPublish

C39_ClientWorksWithoutServer ==
    (ServerGone /\ cpc = "idle" /\ calls < MaxCalls) =>
        /\ OnBlocking => /\ is_final(status_lock.status)
                         /\ mutex = "free"
                         /\ ENABLED StatusLock
        /\ OnPolling => /\ is_final(sent[Len(sent)])
                        /\ ENABLED OutputLoad

C39_HandlesAreIndependent ==
    /\ [](C39_ServerWorksWithoutClient /\ C39_ClientWorksWithoutServer)
    /\ [][ /\ (~ClientGone /\ ClientGone') =>
                 UNCHANGED <<core_vars, lock_vars, polling_vars, callback_vars,
                             cancelled, spc, ret, calls>>
           /\ (OnBlocking /\ ServerGone /\ cpc = "status" /\ cpc' = "idle") =>
                 /\ ret' = status_lock.status
                 /\ is_final(ret')
           /\ (OnPolling /\ ServerGone /\ cpc = "deref" /\ cpc' = "idle"
               /\ done_at_start = Len(sent)) =>
                 /\ ret' = sent[Len(sent)]
                 /\ is_final(ret') ]_vars

C39_Witness ==
    /\ ClientGone
    /\ OnBlocking
    /\ server = "dropped"
    /\ killed
    /\ updates >= 1
    /\ status_lock = [status |-> ERROR_SERVER_KILLED, read |-> FALSE]

\* C40: blocking backend: while an operation created with a terminal status
\* has had no update() accepted (none was attempted, or the first one was
\* rejected), no status is stored or sent: an update() is rejected, the
\* destruction of the server sends nothing, no wait() blocks, and every
\* status() and wait() returns the initial status.
TerminalAtCreation ==
    /\ reached_final_status
    /\ ~killed
    /\ updates = 0 \/ (updates = 1 /\ server = "panicking")

C40_TerminalAtCreationStaysSilent ==
    [][ TerminalAtCreation =>
            /\ updates' # updates => server' = "panicking"
            /\ server' # server => server' \in {"panicking", "dropped"}
            /\ status_lock'.status = status_lock.status
            /\ spc' = "idle"
            /\ ~killed'
            /\ cpc' # "blocked"
            /\ ClientReturns =>
                  /\ ret' = status_lock.status
                  /\ is_final(ret') ]_vars

====
